---------------------------- MODULE Spec2Model ----------------------------
(***************************************************************************)
(* The rule-based homeostat of grok4homeostat.py (class Homeostat) and     *)
(* bar_fightshomeostat.py (class BarHomeostat): __init__, parse_rule,      *)
(* apply_perturbation and run.                                             *)
(*                                                                         *)
(* Numbers.  Every value of the state, the setpoint and the noise is an    *)
(* integer count of units of 0.005, so that 0.01 (the literal of the       *)
(* stability test) is Tolerance = 2 units and 1.0 is Scale = 200 units.    *)
(* The integer amount of a rule is multiplied by Scale when it is applied. *)
(* The values of the configurations and of the noise are chosen so that    *)
(* the comparisons of run give the same answers on these integers as on    *)
(* the floats of the program: a deviation of exactly Tolerance occurs only *)
(* as the float 0.01 itself (a value of 0.01 or -0.01 against a setpoint   *)
(* of 0), never as a rounded difference such as 5.01 - 5.0.                *)
(*                                                                         *)
(* Rule texts.  A rule text is a record of the pieces the regular          *)
(* expression of parse_rule looks at: the fixed words ("If the .. is ..    *)
(* the setpoint, then .. the .. by ..", field shape), the two variable     *)
(* phrases, the comparison phrase, the adjustment verb, the characters of  *)
(* the amount token and the label of the "using" clause ("" when the text  *)
(* has none).                                                              *)
(***************************************************************************)
EXTENDS Integers, Sequences, FiniteSets, TLC

\* 0.01, the literal of the stability test and of "equal to", in units.
Tolerance == 2
\* 1.0 in units.
Scale == 100 * Tolerance

\* Largest max_iterations of the enumerated configurations (the two example
\* configurations of the source files keep the default of __init__).
MaxIter == 2

\* max_iterations=100, the default of __init__.
DefaultMaxIterations == 100

Abs(x) == IF x < 0 THEN 0 - x ELSE x

Max(a, b) == IF a >= b THEN a ELSE b

None == [none |-> TRUE]

-----------------------------------------------------------------------------
(* Rule texts and parse_rule *)

Digits == {"0", "1", "2", "3", "4", "5", "6", "7", "8", "9"}

DigitValue(c) ==
    CASE c = "0" -> 0 [] c = "1" -> 1 [] c = "2" -> 2 [] c = "3" -> 3
      [] c = "4" -> 4 [] c = "5" -> 5 [] c = "6" -> 6 [] c = "7" -> 7
      [] c = "8" -> 8 [] c = "9" -> 9

\* The number of words of the phrases that occur in the rule texts of the model
\* (\w+ matches one word, \w+ \w+ two, [\w\s]+ any number of them).
WordCount(phrase) ==
    CASE phrase \in {"temperature", "pressure", "humidity", "above", "below",
                     "over", "increase", "decrease", "maintain", "boost"} -> 1
      [] phrase \in {"equal to", "aggression level", "calming music",
                     "upbeat tunes", "standard service"} -> 2
      [] phrase = "not equal to" -> 3
      [] OTHER -> 0

\* Length of the longest prefix of the characters cs made of digits: what a
\* greedy \d+ takes.
RECURSIVE DigitPrefixLen(_)
DigitPrefixLen(cs) ==
    IF cs = <<>> \/ Head(cs) \notin Digits THEN 0
    ELSE 1 + DigitPrefixLen(Tail(cs))

\* int() of a sequence of digit characters.
RECURSIVE IntOf(_)
IntOf(ds) ==
    IF ds = <<>> THEN 0
    ELSE 10 * IntOf(SubSeq(ds, 1, Len(ds) - 1)) + DigitValue(ds[Len(ds)])

RuleText(cv, cmp, adj, av, amt, lbl) ==
    [shape |-> TRUE, cond_var |-> cv, comparison |-> cmp, adjustment |-> adj,
     action_var |-> av, amount |-> amt, label |-> lbl]

\* A text that is no "If the ..." sentence at all.
Garbage ==
    [shape |-> FALSE, cond_var |-> "", comparison |-> "", adjustment |-> "",
     action_var |-> "", amount |-> <<>>, label |-> ""]

\* Homeostat.parse_rule: the groups of
\*   If the (\w+) is (\w+ \w+|\w+) the setpoint, then (\w+) the (\w+) by (\d+).
\* The match is not anchored at the end and the final "." matches any
\* character, so the digits only have to start the amount token, and a "using"
\* clause after them is ignored.
HomeostatMatch(rule) ==
    /\ rule.shape
    /\ WordCount(rule.cond_var) = 1
    /\ WordCount(rule.comparison) \in {1, 2}
    /\ WordCount(rule.adjustment) = 1
    /\ WordCount(rule.action_var) = 1
    /\ DigitPrefixLen(rule.amount) >= 1

\* BarHomeostat.parse_rule: the groups of
\*   If the ([\w\s]+) is (\w+ \w+|\w+) the setpoint, then (\w+) the ([\w\s]+)
\*   by (\d+) using ([\w\s]+).
\* " using" has to follow the digits, so the amount token is digits only.
BarMatch(rule) ==
    /\ rule.shape
    /\ WordCount(rule.cond_var) >= 1
    /\ WordCount(rule.comparison) \in {1, 2}
    /\ WordCount(rule.adjustment) = 1
    /\ WordCount(rule.action_var) >= 1
    /\ rule.amount # <<>>
    /\ DigitPrefixLen(rule.amount) = Len(rule.amount)
    /\ WordCount(rule.label) >= 1

RegexMatch(c, rule) ==
    IF c = "BarHomeostat" THEN BarMatch(rule) ELSE HomeostatMatch(rule)

VarMismatch(rule) == rule.cond_var # rule.action_var

\* parse_rule of class c: (variable, comparison, adjustment, amount) or None.
\* (first without the comparison of the two variables)
parse_ruleNoMismatchCheck(c, rule) ==
    IF ~RegexMatch(c, rule) THEN None
    ELSE [var |-> rule.cond_var,
          comparison |-> rule.comparison,
          adjustment |-> rule.adjustment,
          amount |-> IntOf(SubSeq(rule.amount, 1, DigitPrefixLen(rule.amount)))]

parse_rule(c, rule) ==
    IF ~RegexMatch(c, rule) THEN None
    ELSE IF VarMismatch(rule) THEN None
    ELSE [var |-> rule.cond_var,
          comparison |-> rule.comparison,
          adjustment |-> rule.adjustment,
          amount |-> IntOf(SubSeq(rule.amount, 1, DigitPrefixLen(rule.amount)))]


-----------------------------------------------------------------------------
(* The loop body of run: the pure parts *)

\* all(abs(self.state[var] - self.setpoint[var]) < 0.01 for var in self.state):
\* the keys are visited in the order of the dict, all() stops at the first
\* False, and self.setpoint[var] raises KeyError for a key the setpoint lacks.
\* (the test with <= in place of <)
RECURSIVE StableEvalAtMost(_, _, _)
StableEvalAtMost(ks, st, sp) ==
    IF ks = <<>> THEN "True"
    ELSE IF Head(ks) \notin DOMAIN sp THEN "KeyError"
    ELSE IF Abs(st[Head(ks)] - sp[Head(ks)]) <= Tolerance
         THEN StableEvalAtMost(Tail(ks), st, sp)
         ELSE "False"

RECURSIVE StableEval(_, _, _)
StableEval(ks, st, sp) ==
    IF ks = <<>> THEN "True"
    ELSE IF Head(ks) \notin DOMAIN sp THEN "KeyError"
    ELSE IF Abs(st[Head(ks)] - sp[Head(ks)]) < Tolerance
         THEN StableEval(Tail(ks), st, sp)
         ELSE "False"

\* The condition of a parsed rule (the "if" that guards the action).
\* (first with <= in place of < for "equal to")
ConditionAtMost(comparison, current, target) ==
    \/ comparison = "above" /\ current > target
    \/ comparison = "below" /\ current < target
    \/ comparison = "equal to" /\ Abs(current - target) <= Tolerance

Condition(comparison, current, target) ==
    \/ comparison = "above" /\ current > target
    \/ comparison = "below" /\ current < target
    \/ comparison = "equal to" /\ Abs(current - target) < Tolerance

\* The if/elif chain of the action: a verb that is none of the three changes
\* nothing.
\* (first with the amount subtracted for "increase" too)
AdjustAlwaysDown(adjustment, value, amount) ==
    IF adjustment = "decrease" THEN value - amount * Scale
    ELSE IF adjustment = "increase" THEN value - amount * Scale
    ELSE value

Adjust(adjustment, value, amount) ==
    IF adjustment = "decrease" THEN value - amount * Scale
    ELSE IF adjustment = "increase" THEN value + amount * Scale
    ELSE value

\* BarHomeostat only: self.state[var] = max(0, self.state[var]).
\* (first with the max in Homeostat too)
ClampAlways(c, value) == Max(0, value)

\* (and without the max in either class)
ClampNever(c, value) == value

Clamp(c, value) == IF c = "BarHomeostat" THEN Max(0, value) ELSE value

\* self.history.append(self.state.copy())
\* (first without the copy: every entry is the one live dict, so that all of
\* them show the value the state has now)
AppendAlias(h, st) == [i \in 1..(Len(h) + 1) |-> st]

AppendSnapshot(h, st) == Append(h, st)

\* random.uniform(-1, 1) of Homeostat, random.uniform(0, 2) of BarHomeostat:
\* two values of each range (0.015 and 1.95; -1.0 and 0.015).
Noises(c) ==
    IF c = "BarHomeostat" THEN {3, 2 * Scale - 10} ELSE {0 - Scale, 3}

\* random.random(), in hundredths: a value below every positive chance and one
\* above the chances of the model.
RandomDraws == {0, 99}

\* The default perturbation_chance of __init__, in hundredths.
DefaultChance(c) == IF c = "BarHomeostat" THEN 30 ELSE 20

Event(e, v, x) == [ev |-> e, var |-> v, val |-> x]

-----------------------------------------------------------------------------
(* The configurations a run is constructed from *)

T == "temperature"
P == "pressure"
A == "aggression level"

AboveDec2 == RuleText(T, "above", "decrease", T, <<"2">>, "")
AboveDec1 == RuleText(T, "above", "decrease", T, <<"1">>, "")
BelowInc1 == RuleText(T, "below", "increase", T, <<"1">>, "")
EqualMaintain0 == RuleText(T, "equal to", "maintain", T, <<"0">>, "")
EqualInc1 == RuleText(T, "equal to", "increase", T, <<"1">>, "")
PressureAboveDec2 == RuleText(P, "above", "decrease", P, <<"2">>, "")
HumidityAboveDec1 == RuleText("humidity", "above", "decrease", "humidity", <<"1">>, "")
MismatchRule == RuleText(T, "above", "decrease", P, <<"2">>, "")
BoostRule == RuleText(T, "above", "boost", T, <<"2">>, "")
OverRule == RuleText(T, "over", "decrease", T, <<"2">>, "")
NegativeAmount == RuleText(T, "above", "decrease", T, <<"-", "2">>, "")
NonNumericAmount == RuleText(T, "above", "decrease", T, <<"2", "x">>, "")

\* The rules of the example usage of grok4homeostat.py.
ExampleRules == <<AboveDec2, BelowInc1, EqualMaintain0>>

\* The rules of the example usage of bar_fightshomeostat.py.
BarExampleRules ==
    << RuleText(A, "above", "decrease", A, <<"2">>, "calming music"),
       RuleText(A, "below", "increase", A, <<"1">>, "upbeat tunes"),
       RuleText(A, "equal to", "maintain", A, <<"0">>, "standard service") >>

RuleLists ==
    { <<>>,
      ExampleRules,
      <<AboveDec1, AboveDec2>>,
      <<EqualInc1, BelowInc1>>,
      <<PressureAboveDec2, AboveDec2>>,
      <<HumidityAboveDec1, BelowInc1, AboveDec1>>,
      <<MismatchRule, AboveDec2>>,
      <<BoostRule, AboveDec2>>,
      <<OverRule, EqualMaintain0>>,
      <<NegativeAmount, Garbage, BelowInc1>>,
      <<NonNumericAmount, AboveDec1>> }

\* The rule texts as a caller of BarHomeostat writes them: with a "using"
\* clause (a text that has a label keeps it).
WithLabel(rs) ==
    [i \in 1..Len(rs) |->
        IF rs[i].shape /\ rs[i].label = ""
        THEN [rs[i] EXCEPT !.label = "calming music"]
        ELSE rs[i]]

\* (initial value, setpoint) of the temperature, in units.
TempPairs ==
    { <<6 * Scale, 5 * Scale>>, <<5 * Scale, 5 * Scale>>, <<4 * Scale, 5 * Scale>>,
      <<Scale, 0>>, <<Tolerance + 1, 0>>, <<Tolerance, 0>>, <<Tolerance - 1, 0>>,
      <<0 - Tolerance, 0>> }

StateConfig(ks, st, sp) == [keys |-> ks, state |-> st, setpoint |-> sp]

StateConfigs ==
    \* one variable
    { StateConfig(<<T>>, T :> p[1], T :> p[2]) : p \in TempPairs }
    \* two variables, both with a setpoint
    \cup { StateConfig(<<T, P>>, T :> t @@ P :> p, T :> 5 * Scale @@ P :> 0) :
             t \in {5 * Scale, 6 * Scale}, p \in {0, Scale} }
    \* a variable of the state without a setpoint, in both dict orders
    \cup { StateConfig(ks, T :> t @@ P :> Scale, T :> 5 * Scale) :
             ks \in {<<T, P>>, <<P, T>>}, t \in {5 * Scale, 6 * Scale} }
    \cup { StateConfig(<<T>>, T :> 6 * Scale, <<>>) }
    \* a setpoint for a variable the state lacks
    \cup { StateConfig(<<T>>, T :> 6 * Scale, T :> 5 * Scale @@ P :> 0) }

Config(c, sc, rs, mi, ch) ==
    [cls |-> c, keys |-> sc.keys, state |-> sc.state, setpoint |-> sc.setpoint,
     rules |-> rs, max_iterations |-> mi, perturbation_chance |-> ch]

\* Homeostat(initial_state={'temperature': 10.0}, setpoint={'temperature': 5.0},
\* rules=rules), with the perturbation_chance ch.
ExampleConfig(ch) ==
    Config("Homeostat", StateConfig(<<T>>, T :> 10 * Scale, T :> 5 * Scale),
           ExampleRules, DefaultMaxIterations, ch)

\* BarHomeostat(initial_state={'aggression level': 8.0},
\* setpoint={'aggression level': 0.0}, rules=rules) with perturbation_chance 0.
BarExampleConfig ==
    Config("BarHomeostat", StateConfig(<<A>>, A :> 8 * Scale, A :> 0),
           BarExampleRules, DefaultMaxIterations, 0)

Classes == {"Homeostat", "BarHomeostat"}

ConfigsOf(c) ==
    { Config(c, sc, IF c = "BarHomeostat" THEN WithLabel(rs) ELSE rs, mi, ch) :
        sc \in StateConfigs, rs \in RuleLists,
        mi \in -1..MaxIter, ch \in {0, DefaultChance(c)} }

Configs ==
    UNION { ConfigsOf(c) : c \in Classes }
    \cup {ExampleConfig(0), BarExampleConfig}

-----------------------------------------------------------------------------
(* The object and the position of run *)

VARIABLES
    cls,                  \* the class of the object
    keys,                 \* the keys of self.state, in dict order
    initial_state,        \* the initial_state argument of __init__
    state,                \* self.state
    setpoint,             \* self.setpoint
    rules,                \* self.rules
    max_iterations,       \* self.max_iterations
    perturbation_chance,  \* self.perturbation_chance, in hundredths
    history,              \* self.history
    iteration,            \* the local iteration of run
    applied,              \* the local applied of run
    rule_i,               \* the number of rules the for loop has taken
    pc,                   \* the position of run
    out,                  \* what run has printed
    raised,               \* the exception that ended run, or "none"
    run_no                \* 1 for the first object, 2 for one made from its result

\* The Homeostat of agent_program.py and a call of its converge.
VARIABLES
    agent_homeostat,      \* the object: setpoint, step, current
    converge_call         \* the arguments, the locals and the position of converge

\* What the caller of run keeps of the run of a first object while it runs a
\* second object made from the same arguments: None, or the returned state
\* and history, the output and the exception.
VARIABLES first_run

\* The Homeostat of sickness.py, None until one is constructed; the number of
\* calls of measure and adjust made on it; what the last adjust returned.
VARIABLES sickness_homeostat, sickness_calls, sickness_action

run_vars == <<cls, keys, initial_state, state, setpoint, rules, max_iterations,
              perturbation_chance, history, iteration, applied, rule_i, pc, out,
              raised, run_no>>

\* The variables run of grok4homeostat.py and bar_fightshomeostat.py has no
\* part in.
sickness_vars == <<sickness_homeostat, sickness_calls, sickness_action>>

others == <<agent_homeostat, converge_call, first_run, sickness_vars>>

vars == <<run_vars, others>>

config == <<cls, keys, initial_state, setpoint, rules, max_iterations,
            perturbation_chance, run_no>>

\* __init__ followed by the first statement of run (iteration = 0).
Construct(cfg) ==
    /\ cls = cfg.cls
    /\ keys = cfg.keys
    /\ initial_state = cfg.state
    /\ state = cfg.state
    /\ setpoint = cfg.setpoint
    /\ rules = cfg.rules
    /\ max_iterations = cfg.max_iterations
    /\ perturbation_chance = cfg.perturbation_chance
    /\ history = <<>>
    /\ iteration = 0
    /\ applied = FALSE
    /\ rule_i = 0
    /\ pc = "while"
    /\ out = <<>>
    /\ raised = "none"

\* No object of agent_program.py exists.
NoAgent ==
    /\ agent_homeostat = None
    /\ converge_call = None

NoSickness ==
    /\ sickness_homeostat = None
    /\ sickness_calls = 0
    /\ sickness_action = None

Init ==
    /\ \E cfg \in Configs : Construct(cfg) /\ run_no = 1
    /\ first_run = None
    /\ NoAgent
    /\ NoSickness

\* The state after the loop of apply_perturbation, d[v] being the pair
\* (random.random(), random.uniform(..)) drawn for the variable v.
PerturbedAtMost(st, d, chance) ==
    [v \in DOMAIN st |-> IF d[v][1] <= chance THEN st[v] + d[v][2] ELSE st[v]]

Perturbed(st, d, chance) ==
    [v \in DOMAIN st |-> IF d[v][1] < chance THEN st[v] + d[v][2] ELSE st[v]]

\* What apply_perturbation prints, in the order of the keys.
RECURSIVE PerturbationPrints(_, _, _)
PerturbationPrints(ks, d, chance) ==
    IF ks = <<>> THEN <<>>
    ELSE (IF d[Head(ks)][1] < chance
          THEN <<Event("perturbation", Head(ks), d[Head(ks)][2])>>
          ELSE <<>>) \o PerturbationPrints(Tail(ks), d, chance)

\* while iteration < self.max_iterations: the body is entered and the snapshot
\* is appended.
Snapshot ==
    /\ pc = "while"
    /\ iteration < max_iterations
    /\ history' = AppendSnapshot(history, state)
    /\ pc' = "stable"
    /\ UNCHANGED <<others, config, state, iteration, applied, rule_i, out, raised>>

\* (first with a snapshot of the state appended as the loop is left)
LoopExitRecording ==
    /\ pc = "while"
    /\ ~(iteration < max_iterations)
    /\ history' = AppendSnapshot(history, state)
    /\ pc' = "return"
    /\ UNCHANGED <<others, config, state, iteration, applied, rule_i, out, raised>>

\* The while condition is false: the loop is left.
LoopExit ==
    /\ pc = "while"
    /\ ~(iteration < max_iterations)
    /\ pc' = "return"
    /\ UNCHANGED <<others, config, state, history, iteration, applied, rule_i, out, raised>>

\* stable is True: print and break.
\* (first with iteration += 1 ahead of the break)
StableBreakCounted ==
    /\ pc = "stable"
    /\ StableEval(keys, state, setpoint) = "True"
    /\ out' = Append(out, Event("stabilized", "", 0))
    /\ iteration' = iteration + 1
    /\ pc' = "return"
    /\ UNCHANGED <<others, config, state, history, applied, rule_i, raised>>

\* (and with apply_perturbation called between the test and the break)
StableBreakAfterPerturbation ==
    /\ pc = "stable"
    /\ StableEval(keys, state, setpoint) = "True"
    /\ \E d \in [DOMAIN state -> RandomDraws \X Noises(cls)] :
         /\ state' = Perturbed(state, d, perturbation_chance)
         /\ out' = (out \o PerturbationPrints(keys, d, perturbation_chance))
                      \o <<Event("stabilized", "", 0)>>
    /\ pc' = "return"
    /\ UNCHANGED <<others, config, history, iteration, applied, rule_i, raised>>

StableBreak ==
    /\ pc = "stable"
    /\ StableEval(keys, state, setpoint) = "True"
    /\ out' = Append(out, Event("stabilized", "", 0))
    /\ pc' = "return"
    /\ UNCHANGED <<others, config, state, history, iteration, applied, rule_i, raised>>

\* stable is False: the body goes on.
NotStable ==
    /\ pc = "stable"
    /\ StableEval(keys, state, setpoint) = "False"
    /\ pc' = "perturb"
    /\ UNCHANGED <<others, config, state, history, iteration, applied, rule_i, out, raised>>

\* self.setpoint[var] raises KeyError inside the stability test.
StableKeyError ==
    /\ pc = "stable"
    /\ StableEval(keys, state, setpoint) = "KeyError"
    /\ raised' = "KeyError"
    /\ pc' = "done"
    /\ UNCHANGED <<others, config, state, history, iteration, applied, rule_i, out>>

\* self.apply_perturbation(), then applied = False.
apply_perturbation ==
    /\ pc = "perturb"
    /\ \E d \in [DOMAIN state -> RandomDraws \X Noises(cls)] :
         /\ state' = Perturbed(state, d, perturbation_chance)
         /\ out' = out \o PerturbationPrints(keys, d, perturbation_chance)
    /\ applied' = FALSE
    /\ rule_i' = 0
    /\ pc' = "for"
    /\ UNCHANGED <<others, config, history, iteration, raised>>

\* The rule the for loop takes next, and what parse_rule makes of it.
NextRule == rules[rule_i + 1]
Parsed == parse_rule(cls, NextRule)

\* for rule in self.rules: no rule is left.
ForExhausted ==
    /\ pc = "for"
    /\ rule_i = Len(rules)
    /\ pc' = "end"
    /\ UNCHANGED <<others, config, state, history, iteration, applied, rule_i, out, raised>>

\* parsed is None: the next rule.
\* (first with the for loop left at a text that does not parse)
ForUnparsedBreak ==
    /\ pc = "for"
    /\ rule_i < Len(rules)
    /\ Parsed = None
    /\ rule_i' = rule_i + 1
    /\ pc' = "end"
    /\ UNCHANGED <<others, config, state, history, iteration, applied, out, raised>>

ForUnparsed ==
    /\ pc = "for"
    /\ rule_i < Len(rules)
    /\ Parsed = None
    /\ rule_i' = rule_i + 1
    /\ UNCHANGED <<others, config, state, history, iteration, applied, pc, out, raised>>

\* if var not in self.state: continue
ForContinue ==
    /\ pc = "for"
    /\ rule_i < Len(rules)
    /\ Parsed # None
    /\ Parsed.var \notin DOMAIN state
    /\ rule_i' = rule_i + 1
    /\ UNCHANGED <<others, config, state, history, iteration, applied, pc, out, raised>>

\* target = self.setpoint[var] raises KeyError.
ForKeyError ==
    /\ pc = "for"
    /\ rule_i < Len(rules)
    /\ Parsed # None
    /\ Parsed.var \in DOMAIN state
    /\ Parsed.var \notin DOMAIN setpoint
    /\ rule_i' = rule_i + 1
    /\ raised' = "KeyError"
    /\ pc' = "done"
    /\ UNCHANGED <<others, config, state, history, iteration, applied, out>>

\* The condition of the rule is false: the next rule.
ForConditionFalse ==
    /\ pc = "for"
    /\ rule_i < Len(rules)
    /\ Parsed # None
    /\ Parsed.var \in DOMAIN state
    /\ Parsed.var \in DOMAIN setpoint
    /\ ~Condition(Parsed.comparison, state[Parsed.var], setpoint[Parsed.var])
    /\ rule_i' = rule_i + 1
    /\ UNCHANGED <<others, config, state, history, iteration, applied, pc, out, raised>>

\* The condition of the rule is true: the action, applied = True, break.
\* (first without the break: the for loop goes on to the next rule)
ForApplyNoBreak ==
    /\ pc = "for"
    /\ rule_i < Len(rules)
    /\ Parsed # None
    /\ Parsed.var \in DOMAIN state
    /\ Parsed.var \in DOMAIN setpoint
    /\ Condition(Parsed.comparison, state[Parsed.var], setpoint[Parsed.var])
    /\ LET new == Clamp(cls, Adjust(Parsed.adjustment, state[Parsed.var], Parsed.amount))
       IN /\ state' = [state EXCEPT ![Parsed.var] = new]
          /\ out' = Append(out, Event("applied", Parsed.var, new))
    /\ applied' = TRUE
    /\ rule_i' = rule_i + 1
    /\ UNCHANGED <<others, config, history, iteration, pc, raised>>

\* (and with the condition evaluated on the snapshot of the tick in place of
\* the state)
ForApplyOnSnapshot ==
    /\ pc = "for"
    /\ rule_i < Len(rules)
    /\ Parsed # None
    /\ Parsed.var \in DOMAIN state
    /\ Parsed.var \in DOMAIN setpoint
    /\ Condition(Parsed.comparison, history[Len(history)][Parsed.var], setpoint[Parsed.var])
    /\ LET new == Clamp(cls, Adjust(Parsed.adjustment, state[Parsed.var], Parsed.amount))
       IN /\ state' = [state EXCEPT ![Parsed.var] = new]
          /\ out' = Append(out, Event("applied", Parsed.var, new))
    /\ applied' = TRUE
    /\ rule_i' = rule_i + 1
    /\ pc' = "end"
    /\ UNCHANGED <<others, config, history, iteration, raised>>

ForApply ==
    /\ pc = "for"
    /\ rule_i < Len(rules)
    /\ Parsed # None
    /\ Parsed.var \in DOMAIN state
    /\ Parsed.var \in DOMAIN setpoint
    /\ Condition(Parsed.comparison, state[Parsed.var], setpoint[Parsed.var])
    /\ LET new == Clamp(cls, Adjust(Parsed.adjustment, state[Parsed.var], Parsed.amount))
       IN /\ state' = [state EXCEPT ![Parsed.var] = new]
          /\ out' = Append(out, Event("applied", Parsed.var, new))
    /\ applied' = TRUE
    /\ rule_i' = rule_i + 1
    /\ pc' = "end"
    /\ UNCHANGED <<others, config, history, iteration, raised>>

\* if not applied: print; iteration += 1; print.
EndOfTick ==
    /\ pc = "end"
    /\ iteration' = iteration + 1
    /\ out' = out \o (IF applied THEN <<>> ELSE <<Event("no_rule", "", 0)>>)
                  \o <<Event("iteration", "", iteration + 1)>>
    /\ pc' = "while"
    /\ UNCHANGED <<others, config, state, history, applied, rule_i, raised>>

\* (first with the report of the bound printed at every return)
ReturnReportAlways ==
    /\ pc = "return"
    /\ out' = Append(out, Event("max_iterations", "", 0))
    /\ pc' = "done"
    /\ UNCHANGED <<others, config, state, history, iteration, applied, rule_i, raised>>

\* if iteration == self.max_iterations: print; return self.state, self.history
Return ==
    /\ pc = "return"
    /\ out' = out \o (IF iteration = max_iterations
                      THEN <<Event("max_iterations", "", 0)>> ELSE <<>>)
    /\ pc' = "done"
    /\ UNCHANGED <<others, config, state, history, iteration, applied, rule_i, raised>>

\* A caller that got "System stabilized." constructs a second object of the
\* same class from the returned state, with the same setpoint, rules and
\* max_iterations and perturbation_chance 0, and runs it.
Reinvoke ==
    /\ pc = "done"
    /\ run_no = 1
    /\ raised = "none"
    /\ \E i \in 1..Len(out) : out[i].ev = "stabilized"
    /\ run_no' = 2
    /\ initial_state' = state
    /\ perturbation_chance' = 0
    /\ history' = <<>>
    /\ iteration' = 0
    /\ applied' = FALSE
    /\ rule_i' = 0
    /\ out' = <<>>
    /\ pc' = "while"
    /\ UNCHANGED <<others, cls, keys, state, setpoint, rules, max_iterations, raised>>

Next ==
    \/ Snapshot
    \/ LoopExit
    \/ StableBreak
    \/ NotStable
    \/ StableKeyError
    \/ apply_perturbation
    \/ ForExhausted
    \/ ForUnparsed
    \/ ForContinue
    \/ ForKeyError
    \/ ForConditionFalse
    \/ ForApply
    \/ EndOfTick
    \/ Return
    \/ Reinvoke

Spec == Init /\ [][Next]_vars

\* A caller whose first run, with perturbation_chance 0, has ended constructs
\* a second object of the same class from the same initial_state, setpoint,
\* rules, max_iterations and perturbation_chance, keeps what the first run
\* gave, and runs the second object.
Rerun ==
    /\ pc = "done"
    /\ run_no = 1
    /\ perturbation_chance = 0
    /\ first_run' = [state |-> state, history |-> history, out |-> out,
                      raised |-> raised]
    /\ run_no' = 3
    /\ state' = initial_state
    /\ history' = <<>>
    /\ iteration' = 0
    /\ applied' = FALSE
    /\ rule_i' = 0
    /\ out' = <<>>
    /\ raised' = "none"
    /\ pc' = "while"
    /\ UNCHANGED <<agent_homeostat, converge_call, sickness_vars, cls, keys,
                   initial_state, setpoint, rules, max_iterations,
                   perturbation_chance>>

\* The runs without perturbations, each followed by a second run from the
\* same arguments.
InitRerun == Init /\ perturbation_chance = 0

NextRerun == Next \/ Rerun

SpecRerun == InitRerun /\ [][NextRerun]_vars

-----------------------------------------------------------------------------
(* agent_program.py: class Homeostat (setpoint, step, current) and converge *)

(***************************************************************************)
(* Numbers.  The step is a number of quarters (1/4, 1/2 or 1, all in the   *)
(* interval (0, 1] that __init__ accepts) and the setpoints and initial    *)
(* values are multiples of Grain = StepDen ^ MaxConvergeIterations units,  *)
(* so that every value of a converge call of at most MaxConvergeIterations *)
(* iterations is a whole number of units; with a unit that is a power of   *)
(* 1/2 the floats of the program take exactly these values.                *)
(***************************************************************************)
StepDen == 4

\* Largest max_iterations argument of the enumerated converge calls.
MaxConvergeIterations == 3

Grain == StepDen ^ MaxConvergeIterations

\* self.current when it is a float.
Float(x) == [none |-> FALSE, value |-> x]

\* Homeostat(setpoint, step), followed by initialize(initial_value) when
\* initial_value is not None.
AgentHomeostat(sp, st, initial_value) ==
    [setpoint |-> sp, step |-> st, current |-> initial_value]

\* error = self.setpoint - self.current; self.current += self.step * error
iterate(h) ==
    [h EXCEPT !.current =
        Float(h.current.value + (h.step * (h.setpoint - h.current.value)) \div StepDen)]

\* abs(self.setpoint - value) <= tolerance
\* (first with < in place of <=)
WithinToleranceStrict(h, value, tolerance) == Abs(h.setpoint - value) < tolerance

WithinTolerance(h, value, tolerance) == Abs(h.setpoint - value) <= tolerance

ConvergeCall(tol, mi) ==
    [tolerance |-> tol, max_iterations |-> mi, history |-> <<>>, i |-> 0,
     pc |-> "call", raised |-> "none"]

AgentSetpoints == {0, Grain}
AgentSteps == {1, 2, StepDen}
AgentInitialValues == {None, Float(0), Float(Grain), Float(0 - 2 * Grain)}
Tolerances == {0 - 1, 0, Grain \div 4, Grain}

\* No object of grok4homeostat.py or bar_fightshomeostat.py exists.
NoRun ==
    /\ cls = "" /\ keys = <<>> /\ initial_state = <<>> /\ state = <<>>
    /\ setpoint = <<>> /\ rules = <<>> /\ max_iterations = 0
    /\ perturbation_chance = 0 /\ history = <<>> /\ iteration = 0
    /\ applied = FALSE /\ rule_i = 0 /\ pc = "none" /\ out = <<>>
    /\ raised = "none" /\ run_no = 0
    /\ first_run = None

InitConverge ==
    /\ NoRun
    /\ NoSickness
    /\ \E sp \in AgentSetpoints, st \in AgentSteps, v \in AgentInitialValues :
          agent_homeostat = AgentHomeostat(sp, st, v)
    /\ \E tol \in Tolerances, mi \in 0..MaxConvergeIterations :
          converge_call = ConvergeCall(tol, mi)

\* if self.current is None: raise RuntimeError(..)
converge_raise ==
    /\ converge_call.pc = "call"
    /\ agent_homeostat.current = None
    /\ converge_call' = [converge_call EXCEPT !.raised = "RuntimeError", !.pc = "done"]
    /\ UNCHANGED <<run_vars, first_run, sickness_vars, agent_homeostat>>

\* history = []
converge_start ==
    /\ converge_call.pc = "call"
    /\ agent_homeostat.current # None
    /\ converge_call' = [converge_call EXCEPT !.history = <<>>, !.pc = "for"]
    /\ UNCHANGED <<run_vars, first_run, sickness_vars, agent_homeostat>>

\* The body of for _ in range(max_iterations): value = self.iterate(), the
\* append, and the break when the value is within the tolerance.
converge_body ==
    /\ converge_call.pc = "for"
    /\ converge_call.i < converge_call.max_iterations
    /\ LET h == iterate(agent_homeostat)
           value == h.current.value
       IN /\ agent_homeostat' = h
          /\ converge_call' =
               [converge_call EXCEPT
                  !.history = Append(@, value),
                  !.i = @ + 1,
                  !.pc = IF WithinTolerance(h, value, converge_call.tolerance)
                         THEN "return" ELSE "for"]
    /\ UNCHANGED <<run_vars, first_run, sickness_vars>>

\* range(max_iterations) is exhausted.
converge_exhausted ==
    /\ converge_call.pc = "for"
    /\ ~(converge_call.i < converge_call.max_iterations)
    /\ converge_call' = [converge_call EXCEPT !.pc = "return"]
    /\ UNCHANGED <<run_vars, first_run, sickness_vars, agent_homeostat>>

\* return history
converge_return ==
    /\ converge_call.pc = "return"
    /\ converge_call' = [converge_call EXCEPT !.pc = "done"]
    /\ UNCHANGED <<run_vars, first_run, sickness_vars, agent_homeostat>>

NextConverge ==
    \/ converge_raise
    \/ converge_start
    \/ converge_body
    \/ converge_exhausted
    \/ converge_return

SpecConverge == InitConverge /\ [][NextConverge]_vars

-----------------------------------------------------------------------------
(* sickness.py: class Homeostat *)

\* Rates are counted in units of 0.05 sickness per month; the draws of
\* random.uniform are taken from multiples of the unit, and the rounding of
\* floating-point sums is not modelled.
adjustment_factor == 2        \* 0.1
MaxFluctuation == 2           \* random.uniform(-0.1, 0.1)
LowestInitialRate == 10       \* random.uniform(0.5, 2.0)
HighestInitialRate == 40
setpoint_value == 20          \* 1.0, the setpoint of main

\* The longest sequence of calls of measure and adjust.
MaxCalls == 6

\* The object after __init__, rate being the draw of random.uniform(0.5, 2.0).
SicknessHomeostat(setpoint_sickness_per_month, rate) ==
    [setpoint |-> setpoint_sickness_per_month,
     current_sickness_rate |-> rate,
     adjustment_factor |-> adjustment_factor]

\* The setpoints a caller constructs the object with: none of them negative.
SicknessSetpoints == {0, 1, adjustment_factor, setpoint_value}

InitialRates == {LowestInitialRate, LowestInitialRate + 1, HighestInitialRate}

Fluctuations == (0 - MaxFluctuation)..MaxFluctuation

InitSickness ==
    /\ NoRun
    /\ NoAgent
    /\ \E sp \in SicknessSetpoints, rate \in InitialRates :
          sickness_homeostat = SicknessHomeostat(sp, rate)
    /\ sickness_calls = 0
    /\ sickness_action = None

\* measure(): the rate moves by the fluctuation, and a negative sum is
\* replaced by 0.
measure ==
    /\ sickness_calls < MaxCalls
    /\ \E fluctuation \in Fluctuations :
          LET rate == sickness_homeostat.current_sickness_rate + fluctuation
          IN  sickness_homeostat' =
                  [sickness_homeostat EXCEPT !.current_sickness_rate =
                       IF rate < 0 THEN 0 ELSE rate]
    /\ sickness_calls' = sickness_calls + 1
    /\ UNCHANGED <<run_vars, agent_homeostat, converge_call, first_run,
                   sickness_action>>

\* adjust(): a rate above the setpoint is lowered by adjustment_factor; the
\* action is returned.
adjust ==
    /\ sickness_calls < MaxCalls
    /\ IF sickness_homeostat.current_sickness_rate > sickness_homeostat.setpoint
       THEN /\ sickness_homeostat' =
                   [sickness_homeostat EXCEPT !.current_sickness_rate =
                        @ - sickness_homeostat.adjustment_factor]
            /\ sickness_action' = "Reducing workload or increasing rest"
       ELSE /\ sickness_homeostat' = sickness_homeostat
            /\ sickness_action' = "Maintaining current settings"
    /\ sickness_calls' = sickness_calls + 1
    /\ UNCHANGED <<run_vars, agent_homeostat, converge_call, first_run>>

NextSickness == measure \/ adjust

SpecSickness == InitSickness /\ [][NextSickness]_vars

-----------------------------------------------------------------------------
(* What a caller observes of a run *)

Printed(e) == \E i \in 1..Len(out) : out[i].ev = e

CountPrinted(e) == Cardinality({i \in 1..Len(out) : out[i].ev = e})

\* "System stabilized." / "Bar is peaceful and stabilized." was printed.
Stabilized == Printed("stabilized")

\* "Max iterations reached; ..." was printed.
MaxIterationsReached == Printed("max_iterations")

IsPrefix(s, t) == Len(s) <= Len(t) /\ \A i \in 1..Len(s) : s[i] = t[i]

-----------------------------------------------------------------------------
(* Properties *)

\* The first object is the one of the example usage of grok4homeostat.py, with
\* perturbation_chance 0.
ExampleRun ==
    /\ run_no = 1
    /\ cls = "Homeostat"
    /\ initial_state = (T :> 10 * Scale)
    /\ setpoint = (T :> 5 * Scale)
    /\ rules = ExampleRules
    /\ perturbation_chance = 0
    /\ max_iterations = DefaultMaxIterations

ExampleHistory ==
    << T :> 10 * Scale, T :> 8 * Scale, T :> 6 * Scale, T :> 4 * Scale,
       T :> 5 * Scale >>

\* C1: with the rules [above -> decrease by 2, below -> increase by 1, equal to
\* -> maintain by 0], the state {temperature: 10}, the setpoint {temperature: 5}
\* and perturbation chance 0, the history grows along 10, 8, 6, 4, 5 and the run
\* ends with exactly that history, stabilized on the tick that snapshots 5,
\* after 4 completed iterations, with the final value 5.
C1_ExampleRun ==
    ExampleRun =>
        /\ IsPrefix(history, ExampleHistory)
        /\ Stabilized => (Len(history) = 5 /\ iteration = 4)
        /\ pc = "done" =>
             /\ history = ExampleHistory
             /\ Stabilized
             /\ ~MaxIterationsReached
             /\ raised = "none"
             /\ iteration = 4
             /\ CountPrinted("iteration") = 4
             /\ state = (T :> 5 * Scale)

C1_Witness == ExampleRun /\ pc = "done" /\ Len(history) = 5

\* The rule r parses, names a variable of the state st (that has a setpoint)
\* and its condition holds in st.
Matches(r, st) ==
    LET p == parse_rule(cls, r)
    IN /\ p # None
       /\ p.var \in DOMAIN st
       /\ p.var \in DOMAIN setpoint
       /\ Condition(p.comparison, st[p.var], setpoint[p.var])

\* The index of the earliest rule that matches st, 0 when none does.
FirstMatch(st) ==
    IF \E i \in 1..Len(rules) : Matches(rules[i], st)
    THEN CHOOSE i \in 1..Len(rules) :
            /\ Matches(rules[i], st)
            /\ \A j \in 1..(i - 1) : ~Matches(rules[j], st)
    ELSE 0

C2_OnePerTick ==
    /\ pc = "for" => ~applied
    /\ CountPrinted("applied")
          <= iteration + (IF pc \in {"for", "end"} THEN 1 ELSE 0)

C2_RuleStep ==
    pc = "for" =>
        /\ applied' =>
             /\ pc' = "end"
             /\ rule_i' = FirstMatch(state)
             /\ \A v \in DOMAIN state :
                   v # parse_rule(cls, rules[rule_i']).var => state'[v] = state[v]
        /\ state' # state => applied'
        /\ (pc' = "end" /\ ~applied') => FirstMatch(state) = 0

\* C2: in each tick at most one rule is applied, and it is the earliest rule of
\* the list that parses, names a variable of the state and whose condition
\* holds in the current state; the rule step changes at most the variable of
\* that rule, no later rule is taken after it, and the list is exhausted
\* without an application only when no rule matches.
C2_FirstMatchWins == []C2_OnePerTick /\ [][C2_RuleStep]_vars

\* A rule has been applied although a later rule of the list matches the state
\* as well.
C2_Witness ==
    /\ pc = "end"
    /\ applied
    /\ \E j \in (rule_i + 1)..Len(rules) : Matches(rules[j], state)

\* C3: for every configuration with max_iterations >= 1 the run takes at most
\* max_iterations ticks and ends in exactly one of the outcomes Stabilized and
\* MaxIterationsReached, and nothing of a tick happens after an outcome.
C3_TwoOutcomes ==
    max_iterations >= 1 =>
        /\ iteration <= max_iterations
        /\ ~(Stabilized /\ MaxIterationsReached)
        /\ (Stabilized \/ MaxIterationsReached) => pc \in {"return", "done"}
        /\ pc = "done" => (raised = "none" /\ (Stabilized \/ MaxIterationsReached))

\* The deviation of the variable v is below 0.01 / at most 0.01.
WithinStrict(v) ==
    v \in DOMAIN setpoint /\ Abs(state[v] - setpoint[v]) < Tolerance

WithinAtMost(v) ==
    v \in DOMAIN setpoint /\ Abs(state[v] - setpoint[v]) <= Tolerance

\* C4 as stated: after the snapshot the loop stops as Stabilized exactly when
\* every variable deviates from its setpoint by at most 0.01 (so that it never
\* goes on to the perturbation with all deviations at most 0.01).
C4_StableIffWithinAtMost ==
    /\ pc = "perturb" => \E v \in DOMAIN state : ~WithinAtMost(v)
    /\ (pc = "return" /\ Stabilized) => \A v \in DOMAIN state : WithinAtMost(v)

\* C4 as amended: after the snapshot the loop stops as Stabilized exactly when
\* every variable deviates from its setpoint by less than 0.01; with a
\* deviation of exactly 0.01 the tick goes on, and a run that ends with a
\* KeyError has a variable without a setpoint.
C4_StableIffStrictlyWithin ==
    /\ pc = "perturb" => \E v \in DOMAIN state : ~WithinStrict(v)
    /\ (pc = "return" /\ Stabilized) => \A v \in DOMAIN state : WithinStrict(v)
    /\ raised # "none" => \E v \in DOMAIN state : ~WithinStrict(v)

\* The tick went on past the stability test with a deviation of exactly 0.01
\* and none above it.
C4_Witness ==
    /\ pc = "perturb"
    /\ \A v \in DOMAIN state : WithinAtMost(v)
    /\ \E v \in DOMAIN state : Abs(state[v] - setpoint[v]) = Tolerance

C5_AtReturn ==
    (pc \in {"return", "done"} /\ Stabilized) =>
        /\ history # <<>>
        /\ state = history[Len(history)]
        /\ Len(history) = iteration + 1
        /\ CountPrinted("iteration") = iteration
        /\ out[Len(out)].ev = "stabilized"
        /\ Len(out) > 1 => out[Len(out) - 1].ev = "iteration"

C5_BreakStep ==
    (pc = "stable" /\ pc' = "return") =>
        /\ state' = state
        /\ iteration' = iteration
        /\ history' = history
        /\ applied' = applied
        /\ rule_i' = rule_i
        /\ out' = Append(out, Event("stabilized", "", 0))

\* C5: on the tick whose stability test succeeds nothing but the snapshot
\* happens: the break leaves the state, the counter and the position of the
\* rule loop alone and prints nothing of a perturbation or a rule, and the
\* returned state is the last entry of the history, which has one entry more
\* than the counter counts.
C5_StabilizingTick == []C5_AtReturn /\ [][C5_BreakStep]_vars

\* A run with perturbations switched on has stabilized after at least one
\* completed iteration.
C5_Witness ==
    /\ pc = "done"
    /\ Stabilized
    /\ run_no = 1
    /\ iteration >= 1
    /\ perturbation_chance > 0

\* The for loop is about to evaluate the condition of a rule.
Evaluating ==
    /\ pc = "for"
    /\ rule_i < Len(rules)
    /\ Parsed # None
    /\ Parsed.var \in DOMAIN state
    /\ Parsed.var \in DOMAIN setpoint

\* The verdict on a comparison for the difference current - target, equal
\* being the verdict on "equal to".
Verdict(comparison, difference, equal) ==
    CASE comparison = "above" -> difference > 0
      [] comparison = "below" -> difference < 0
      [] comparison = "equal to" -> equal
      [] OTHER -> FALSE

Difference == state[Parsed.var] - setpoint[Parsed.var]

\* C6 as stated: the rule is applied iff "above" and current > target, "below"
\* and current < target, or "equal to" and |current - target| <= 0.01.
C6_ConditionAtMost ==
    [][Evaluating =>
        (applied' <=> Verdict(Parsed.comparison, Difference,
                              Abs(Difference) <= Tolerance))]_vars

\* C6 as amended: the rule is applied iff "above" and current > target, "below"
\* and current < target, or "equal to" and |current - target| < 0.01.
C6_ConditionStrict ==
    [][Evaluating =>
        (applied' <=> Verdict(Parsed.comparison, Difference,
                              Abs(Difference) < Tolerance))]_vars

\* An "equal to" rule was taken at a deviation of exactly 0.01 and not applied.
C6_Witness ==
    /\ pc = "for"
    /\ rule_i >= 1
    /\ ~applied
    /\ LET p == parse_rule(cls, rules[rule_i])
       IN /\ p # None
          /\ p.comparison = "equal to"
          /\ p.var \in DOMAIN state
          /\ p.var \in DOMAIN setpoint
          /\ Abs(state[p.var] - setpoint[p.var]) = Tolerance

\* 1 from the append of a tick until the end of that tick, and after a break
\* or an exception (which leave the loop before the counter is incremented).
OpenTick ==
    IF pc \in {"stable", "perturb", "for", "end"} \/ Stabilized \/ raised # "none"
    THEN 1 ELSE 0

C7_OnePerIteration == Len(history) = iteration + OpenTick

C7_Extends ==
    run_no' = run_no =>
        /\ IsPrefix(history, history')
        /\ Len(history') <= Len(history) + 1
        /\ Len(history') = Len(history) + 1 => history'[Len(history')] = state

\* C7: the history is append-only: every iteration appends exactly one
\* snapshot, the state of that moment, every step of a run leaves the entries
\* that are there as they are, and so the history is at every point an
\* extension of what it was before.
C7_AppendOnly == []C7_OnePerIteration /\ [][C7_Extends]_vars

\* The state has moved away from the first two snapshots, which differ.
C7_Witness ==
    /\ Len(history) >= 2
    /\ history[1] # history[2]
    /\ history[2] # state
    /\ history[1] = initial_state

\* C8: a second run, from the state a stabilized run returned, with the same
\* setpoint and rules and perturbation chance 0, stabilizes on its first
\* tick: it never reaches the perturbation or a rule, its counter stays 0, and
\* it returns its initial state with the one snapshot of it.
C8_Idempotent ==
    run_no = 2 =>
        /\ state = initial_state
        /\ iteration = 0
        /\ pc \in {"while", "stable", "return", "done"}
        /\ ~Printed("perturbation") /\ ~Printed("applied") /\ ~Printed("no_rule")
        /\ pc = "done" =>
             /\ Stabilized
             /\ ~MaxIterationsReached
             /\ raised = "none"
             /\ history = <<initial_state>>

\* The second run, made from the state the first run returned, has returned.
C8_Witness ==
    /\ run_no = 2
    /\ pc = "done"

\* C9: with an empty rule list, perturbation chance 0 and a variable that
\* deviates from its setpoint by more than the tolerance, the run never
\* stabilizes and ends as MaxIterationsReached after exactly max_iterations
\* ticks, each of them unmanaged, with the state it started from.
C9_EmptyRules ==
    ( /\ run_no = 1
      /\ rules = <<>>
      /\ perturbation_chance = 0
      /\ max_iterations >= 0
      /\ \E v \in DOMAIN initial_state :
            /\ v \in DOMAIN setpoint
            /\ Abs(initial_state[v] - setpoint[v]) > Tolerance )
    => /\ ~Stabilized
       /\ state = initial_state
       /\ pc = "done" =>
            /\ MaxIterationsReached
            /\ raised = "none"
            /\ iteration = max_iterations
            /\ Len(history) = max_iterations
            /\ CountPrinted("no_rule") = max_iterations

\* C10: a rule whose variable is missing from the state or from the setpoint
\* is skipped without an error: the for loop goes on to the next rule and
\* changes nothing else.
C10_SkipUnknownVariable ==
    [][( /\ pc = "for"
         /\ rule_i < Len(rules)
         /\ Parsed # None
         /\ (Parsed.var \notin DOMAIN state \/ Parsed.var \notin DOMAIN setpoint) )
       => /\ pc' = "for"
          /\ rule_i' = rule_i + 1
          /\ raised' = "none"
          /\ state' = state
          /\ applied' = applied]_vars

\* A variable of the state has no setpoint.
SetpointLacksKey == \E v \in DOMAIN initial_state : v \notin DOMAIN setpoint

\* C11: a configuration whose setpoint lacks a key of the state is rejected
\* with an error before the loop starts: no snapshot is appended, no
\* perturbation and no rule is applied to the state, and the run ends with
\* the error.
C11_RejectedBeforeLoop ==
    SetpointLacksKey =>
        /\ history = <<>>
        /\ state = initial_state
        /\ ~Printed("perturbation") /\ ~Printed("applied")
        /\ pc = "done" => raised # "none"

\* C12: a configuration with max_iterations <= 0 is rejected with an error
\* before the loop starts: run never returns a result (state, history, reason)
\* for it.
C12_NonPositiveRejected ==
    max_iterations <= 0 => (pc = "done" => raised # "none")

\* The rule list with the texts parse_rule returns None for removed.
WithoutMalformed(rs) == SelectSeq(rs, LAMBDA r : parse_rule(cls, r) # None)

\* What the for loop of a tick makes of the state st over a list rs of texts
\* that all parse: the first rule that names a variable of st and whose
\* condition holds is applied, a variable without a setpoint raises KeyError.
RECURSIVE RuleStepOver(_, _)
RuleStepOver(rs, st) ==
    IF rs = <<>> THEN [state |-> st, applied |-> FALSE, raised |-> "none"]
    ELSE LET p == parse_rule(cls, Head(rs))
         IN IF p.var \notin DOMAIN st THEN RuleStepOver(Tail(rs), st)
            ELSE IF p.var \notin DOMAIN setpoint
                 THEN [state |-> st, applied |-> FALSE, raised |-> "KeyError"]
            ELSE IF Condition(p.comparison, st[p.var], setpoint[p.var])
                 THEN [state |-> [st EXCEPT ![p.var] =
                                    Clamp(cls, Adjust(p.adjustment, st[p.var], p.amount))],
                       applied |-> TRUE, raised |-> "none"]
            ELSE RuleStepOver(Tail(rs), st)

C13_UnparsedStep ==
    (pc = "for" /\ rule_i < Len(rules) /\ Parsed = None) =>
        /\ pc' = "for"
        /\ rule_i' = rule_i + 1
        /\ UNCHANGED <<state, history, iteration, applied, out, raised>>

C13_SameRuleStep ==
    (pc = "for" /\ pc' # "for") =>
        [state |-> state', applied |-> applied', raised |-> raised']
            = RuleStepOver(WithoutMalformed(rules), state)

C14_MismatchRejected ==
    [][( /\ pc = "for"
         /\ rule_i < Len(rules)
         /\ VarMismatch(NextRule) )
       => /\ Parsed = None
          /\ pc' = "for"
          /\ rule_i' = rule_i + 1
          /\ UNCHANGED <<state, history, iteration, applied, out, raised>>]_vars

\* The for loop has passed over a text that matches the regular expression,
\* names two different variables of the state, both with a setpoint, and whose
\* condition holds.
C14_Witness ==
    /\ pc = "for"
    /\ rule_i >= 1
    /\ ~applied
    /\ LET r == rules[rule_i]
       IN /\ RegexMatch(cls, r)
          /\ VarMismatch(r)
          /\ {r.cond_var, r.action_var} \subseteq (DOMAIN state \cap DOMAIN setpoint)
          /\ Condition(r.comparison, state[r.cond_var], setpoint[r.cond_var])

\* The comparators and the adjustment verbs of the rule grammar.
Comparators == {"above", "below", "equal to"}
Verbs == {"increase", "decrease", "maintain"}

\* A rule sentence with a comparator or a verb outside the grammar.
Unrecognized(rule) ==
    rule.shape /\ (rule.comparison \notin Comparators \/ rule.adjustment \notin Verbs)

\* C15: a rule text whose verb is none of increase, decrease, maintain, or
\* whose comparator is none of above, below, equal to, is never the applied
\* rule of a tick and never keeps a later rule from being taken: the for loop
\* passes over it and changes nothing.
C15_UnrecognizedPassedOver ==
    [][( /\ pc = "for"
         /\ rule_i < Len(rules)
         /\ Unrecognized(NextRule) )
       => /\ pc' = "for"
          /\ rule_i' = rule_i + 1
          /\ UNCHANGED <<state, history, iteration, applied, out, raised>>]_vars

\* The amount token of a rule sentence is missing, negative or not a number:
\* it is not a sequence of digits.
MalformedAmount(rule) ==
    /\ rule.shape
    /\ \/ rule.amount = <<>>
       \/ \E i \in 1..Len(rule.amount) : rule.amount[i] \notin Digits

\* C16: parsing a rule text whose amount token is negative, missing or not a
\* number fails, and the rule is not applied: the for loop passes over the
\* text and changes nothing.
C16_MalformedAmountFails ==
    [][( /\ pc = "for"
         /\ rule_i < Len(rules)
         /\ MalformedAmount(NextRule) )
       => /\ pc' = "for"
          /\ rule_i' = rule_i + 1
          /\ UNCHANGED <<state, history, iteration, applied, out, raised>>]_vars

C17_RuleStep ==
    (pc = "for" /\ FirstMatch(state) = 0) =>
        /\ pc' \in {"for", "end"}
        /\ state' = state
        /\ ~applied'
        /\ raised' = "none"

C17_Report ==
    (pc = "end" /\ ~applied) =>
        /\ state' = state
        /\ iteration' = iteration + 1
        /\ out' = out \o <<Event("no_rule", "", 0), Event("iteration", "", iteration + 1)>>

\* C17: on a tick in which no rule's condition holds the rule step leaves the
\* state as the perturbation step produced it and ends without an applied
\* rule, the tick is reported with "No applicable rule found." and the counter
\* is incremented by one.
C17_UnmanagedTick == [][C17_RuleStep /\ C17_Report]_vars

\* The change a verb of the grammar makes, in units.
Delta(adjustment, amount) ==
    CASE adjustment = "increase" -> amount * Scale
      [] adjustment = "decrease" -> 0 - amount * Scale
      [] adjustment = "maintain" -> 0

\* The state changes only in the perturbation step and in the rule step; the
\* keys of the state, the setpoint and the rule list never change; a rule step
\* that applies no rule leaves the state alone, and one that applies a rule
\* leaves every variable but the rule's alone.
C18_Frame ==
    /\ DOMAIN state' = DOMAIN state
    /\ setpoint' = setpoint
    /\ rules' = rules
    /\ state' # state => pc \in {"perturb", "for"}
    /\ (pc = "for" /\ ~applied') => state' = state
    /\ (pc = "for" /\ applied') =>
          \A w \in DOMAIN state :
              w # parse_rule(cls, rules[rule_i']).var => state'[w] = state[w]

\* The rule step has applied a rule with a verb of the grammar.
AppliedVerb ==
    /\ pc = "for"
    /\ applied'
    /\ parse_rule(cls, rules[rule_i']).adjustment \in Verbs

\* C18 as stated: the state is changed only by the perturbation step and by
\* the one selected rule, which changes only its own variable, by +amount for
\* increase, -amount for decrease and 0 for maintain; the keys of the state,
\* the setpoint and the rule list do not change.
C18_ExactDelta ==
    [][/\ C18_Frame
       /\ AppliedVerb =>
            LET p == parse_rule(cls, rules[rule_i'])
            IN state'[p.var] = state[p.var] + Delta(p.adjustment, p.amount)]_vars

\* C18 as amended: as stated, except that in BarHomeostat the value the rule
\* gives its variable is raised to 0 when it is negative.
C18_DeltaThenFloor ==
    [][/\ C18_Frame
       /\ AppliedVerb =>
            LET p == parse_rule(cls, rules[rule_i'])
                new == state[p.var] + Delta(p.adjustment, p.amount)
            IN state'[p.var] =
                 IF cls = "BarHomeostat" /\ new < 0 THEN 0 ELSE new]_vars

\* A BarHomeostat without perturbations has applied a "decrease" whose amount
\* is larger than the value of the variable, which is 0 now.
C18_Witness ==
    /\ cls = "BarHomeostat"
    /\ perturbation_chance = 0
    /\ pc = "end"
    /\ applied
    /\ LET p == parse_rule(cls, rules[rule_i])
       IN /\ p.adjustment = "decrease"
          /\ history[Len(history)][p.var] - p.amount * Scale < 0
          /\ state[p.var] = 0

\* The value v is within the tolerance of the call of the setpoint.
Near(v) == Abs(agent_homeostat.setpoint - v) <= converge_call.tolerance

\* C19: converge(tolerance, max_iterations) returns a list of at most
\* max_iterations values, each got from the one before it by one iterate (the
\* last is the current value of the object), in which no value before the
\* last is within the tolerance of the setpoint; a list of fewer than
\* max_iterations values ends with a value within the tolerance.  While the
\* loop goes on no value of the list is within the tolerance.
C19_ConvergeList ==
    LET h == converge_call.history
        n == Len(h)
        a == agent_homeostat
    IN /\ converge_call.pc = "for" => \A i \in 1..n : ~Near(h[i])
       /\ (converge_call.pc = "done" /\ converge_call.raised = "none") =>
            /\ n <= converge_call.max_iterations
            /\ \A i \in 1..(n - 1) : ~Near(h[i])
            /\ \A i \in 1..(n - 1) :
                  h[i + 1] = h[i] + (a.step * (a.setpoint - h[i])) \div StepDen
            /\ n >= 1 => a.current = Float(h[n])
            /\ n < converge_call.max_iterations => (n >= 1 /\ Near(h[n]))

\* converge has returned a list of two or more values, fewer than
\* max_iterations, whose last value is exactly the tolerance away from the
\* setpoint.
C19_Witness ==
    LET h == converge_call.history
    IN /\ converge_call.pc = "done"
       /\ converge_call.raised = "none"
       /\ Len(h) >= 2
       /\ Len(h) < converge_call.max_iterations
       /\ Abs(agent_homeostat.setpoint - h[Len(h)]) = converge_call.tolerance

\* The snapshot of the tick in progress.
TickSnapshot == history[Len(history)]

C20_SnapshotFirst ==
    /\ pc \in {"stable", "perturb", "for", "end"} =>
          /\ history # <<>>
          /\ Len(history) = iteration + 1
    /\ pc \in {"stable", "perturb"} => TickSnapshot = state

C20_Step ==
    run_no' = run_no =>
        /\ history' # history => (pc = "while" /\ pc' = "stable" /\ state' = state)
        /\ pc = "stable" => (state' = state /\ out' \in {out, Append(out, Event("stabilized", "", 0))})
        /\ CountPrinted("perturbation")' # CountPrinted("perturbation") =>
              (pc = "perturb" /\ pc' = "for" /\ rule_i' = 0)
        /\ pc = "perturb" => (pc' = "for" /\ history' = history /\ iteration' = iteration)
        /\ (pc = "for" /\ applied') =>
              LET p == parse_rule(cls, rules[rule_i'])
              IN Condition(p.comparison, state[p.var], setpoint[p.var])
        /\ pc = "for" => iteration' = iteration
        /\ iteration' # iteration =>
              (pc = "end" /\ pc' = "while" /\ iteration' = iteration + 1 /\ state' = state)

\* C20: in a tick that does not stabilize the steps come in the order
\* snapshot, stability test, perturbation, rule evaluation, counter
\* increment: the snapshot is appended first and holds the state before the
\* perturbation of the tick, the perturbation comes after the stability test
\* and before the first rule, a rule is applied when its condition holds for
\* the values after the perturbation, and the counter is incremented last.
C20_TickOrder == []C20_SnapshotFirst /\ [][C20_Step]_vars

\* A rule has been applied whose condition holds after the perturbation of the
\* tick and does not hold for the values of the snapshot.
C20_Witness ==
    /\ pc = "end"
    /\ applied
    /\ Printed("perturbation")
    /\ LET p == parse_rule(cls, rules[rule_i])
       IN ~Condition(p.comparison, TickSnapshot[p.var], setpoint[p.var])

\* Every value of the initial state is non-negative.
NonNegativeStart == \A v \in DOMAIN initial_state : initial_state[v] >= 0

\* C21: in BarHomeostat, when every value of the initial state is
\* non-negative, every value of every snapshot of the history and of the state
\* (the final state included) is non-negative, whatever the rules and the
\* draws are.
C21_BarNonNegative ==
    (cls = "BarHomeostat" /\ NonNegativeStart) =>
        /\ \A v \in DOMAIN state : state[v] >= 0
        /\ \A i \in 1..Len(history) : \A v \in DOMAIN history[i] : history[i][v] >= 0

\* A BarHomeostat that started non-negative has just applied, after a
\* disturbance, a "decrease" larger than the disturbed value, which is 0 now.
C21_Witness ==
    /\ cls = "BarHomeostat"
    /\ NonNegativeStart
    /\ pc = "end"
    /\ applied
    /\ Len(out) >= 2
    /\ out[Len(out) - 1].ev = "perturbation"
    /\ LET p == parse_rule(cls, rules[rule_i])
       IN /\ p.adjustment = "decrease"
          /\ out[Len(out) - 1].var = p.var
          /\ TickSnapshot[p.var] + out[Len(out) - 1].val - p.amount * Scale < 0
          /\ state[p.var] = 0

\* What a run gives its caller so far: the state and the history that run
\* returns, the printed output with the termination report, the exception.
RunResult == [state |-> state, history |-> history, out |-> out, raised |-> raised]

\* C22: with perturbation_chance 0 the perturbation step changes nothing
\* (from the snapshot of a tick until its rule loop changes a variable the
\* state is the snapshot, and no perturbation is ever reported), and a second
\* run from the same initial state, setpoint, rules and max_iterations ends
\* with the history, final state, output and exception of the first.
C22_Deterministic ==
    perturbation_chance = 0 =>
        /\ ~Printed("perturbation")
        /\ pc \in {"stable", "perturb", "for"} => state = TickSnapshot
        /\ (run_no = 3 /\ pc = "done") => RunResult = first_run

C22_Witness ==
    /\ run_no = 3 /\ pc = "done" /\ perturbation_chance = 0
    /\ Len(history) = 2 /\ Printed("applied") /\ MaxIterationsReached
    /\ RunResult = first_run

\* Every variable of the state is within the tolerance of its setpoint, as the
\* stability test measures it.
FinalStateStable == \A v \in DOMAIN state : WithinStrict(v)

\* C23 as stated: a run that ends as MaxIterationsReached returns a state with
\* a variable outside the tolerance of its setpoint, and a run that ends as
\* Stabilized returns a state with every variable within it.
C23_ReasonAgreesWithState ==
    pc = "done" =>
        /\ MaxIterationsReached => ~FinalStateStable
        /\ Stabilized => FinalStateStable

\* C23 as amended: a run that ends as Stabilized returns a state with every
\* variable within the tolerance; a run that ends as MaxIterationsReached has
\* counted max_iterations iterations and none of its snapshots was stable,
\* the returned state itself not being tested; no run ends as both.
C23_ReasonAgreesWithSnapshots ==
    pc = "done" =>
        /\ Stabilized => FinalStateStable
        /\ MaxIterationsReached =>
            /\ iteration = max_iterations
            /\ Len(history) = max_iterations
            /\ \A i \in 1..Len(history) :
                   StableEval(keys, history[i], setpoint) # "True"
        /\ ~(Stabilized /\ MaxIterationsReached)

\* A run ended as MaxIterationsReached and its last tick applied a rule that
\* brought every variable within the tolerance.
C23_Witness ==
    /\ pc = "done"
    /\ MaxIterationsReached
    /\ FinalStateStable
    /\ iteration >= 1
    /\ out[Len(out) - 2].ev = "applied"
    /\ state # history[Len(history)]

\* The first run of a fresh object with max_iterations >= 1 has returned.
FirstRunReturned == pc = "done" /\ run_no = 1 /\ max_iterations >= 1

C24_AtReturn ==
    FirstRunReturned =>
        /\ Stabilized =>
            /\ iteration < max_iterations
            /\ Len(history) = iteration + 1
            /\ history[Len(history)] = state
        /\ MaxIterationsReached =>
            /\ iteration = max_iterations
            /\ Len(history) = max_iterations
            /\ \A i \in 1..Len(history) :
                   StableEval(keys, history[i], setpoint) # "True"

\* From the end of the last tick to the return nothing is recorded and the
\* state is not changed.
C24_AfterLastTick ==
    (run_no' = run_no /\ pc' \in {"return", "done"} /\ pc # "stable") =>
        /\ state' = state
        /\ history' = history
        /\ iteration' = iteration

\* C24: at the return of a first run with max_iterations >= 1, a run
\* Stabilized after k < max_iterations iterations has k + 1 snapshots, the
\* last one equal to the final state; a run that ended as MaxIterationsReached
\* has max_iterations snapshots, none stable, and its final state is the
\* state the last tick left, after which no snapshot was taken.
C24_HistoryAtReturn == []C24_AtReturn /\ [][C24_AfterLastTick]_vars

\* A run of two ticks with perturbations ended as MaxIterationsReached with a
\* final state that differs from both snapshots.
C24_Witness ==
    /\ FirstRunReturned
    /\ MaxIterationsReached
    /\ max_iterations = 2
    /\ perturbation_chance > 0
    /\ \A i \in 1..Len(history) : history[i] # state

\* C25: a sickness Homeostat constructed with a non-negative setpoint never
\* has a negative current_sickness_rate, whatever calls of measure and adjust
\* were made on it.
C25_RateNeverNegative ==
    (sickness_homeostat # None /\ sickness_homeostat.setpoint >= 0) =>
        sickness_homeostat.current_sickness_rate >= 0

=============================================================================
